---- MODULE Spec2Model ----
(***************************************************************************)
(* Model of frontend/src/components/navigation/NavigationLinks.ts.         *)
(*                                                                         *)
(* The file exports one binding, menuGroups, bound to one array object of  *)
(* MenuGroup objects.  The array is an ordinary JavaScript array: the      *)
(* binding is const, the object it names is not frozen and its type is     *)
(* MenuGroup[] (not readonly).  An importer therefore obtains a reference  *)
(* to the array itself.                                                    *)
(*                                                                         *)
(* The heap maps references to array contents.  Consumers read the export, *)
(* walk the groups in index order and - in SpecConsumerWrites - use the    *)
(* array and object methods the declared types allow on what they hold.    *)
(*                                                                         *)
(* The three icon strings of the source are characters outside the basic   *)
(* multilingual plane; they are written here by their code points.         *)
(***************************************************************************)
EXTENDS Naturals, Sequences, FiniteSets, TLC

\* Number of consumers (importing modules / rendering components).
NumConsumers == 3

\* Cap on the number of modifications consumers make in one behaviour.
MaxWrites == 1

Consumers == 1..NumConsumers

VARIABLES
    heap,         \* reference -> content of the array object it names
    ref,          \* ref[c]: the reference consumer c holds, or NoRef
    cursor,       \* cursor[c]: index of the last group consumer c has read
    firstResult,  \* <<v>>: content returned by the first read; <<>> before it
    lastResult,   \* <<v>>: content returned by the latest read; <<>> before it
    writes        \* number of consumer modifications made so far

vars == <<heap, ref, cursor, firstResult, lastResult, writes>>

----------------------------------------------------------------------------
(* The declared data, NavigationLinks.ts lines 14-48.                      *)

\* CorrelationsGroup with the last link pointing at the first link's target.
CorrelationsGroup_DuplicateHref ==
    [ title |-> "Correlations",
      icon  |-> "U+1F517",
      links |-> << [label |-> "Full Matrix",            href |-> "/correlation/matrix"],
                   [label |-> "Pairwise Metrics",       href |-> "/correlation/pairwise"],
                   [label |-> "Cramér's V",             href |-> "/correlation/cramers-v"],
                   [label |-> "Correlation Ratio (η²)", href |-> "/correlation/eta"],
                   [label |-> "Feature Heatmap",        href |-> "/correlation/matrix"] >> ]

\* CorrelationsGroup with the accented and Greek letters typed in ASCII.
CorrelationsGroup_AsciiLabels ==
    [ title |-> "Correlations",
      icon  |-> "U+1F517",
      links |-> << [label |-> "Full Matrix",            href |-> "/correlation/matrix"],
                   [label |-> "Pairwise Metrics",       href |-> "/correlation/pairwise"],
                   [label |-> "Cramer's V",             href |-> "/correlation/cramers-v"],
                   [label |-> "Correlation Ratio (eta2)", href |-> "/correlation/eta"],
                   [label |-> "Feature Heatmap",        href |-> "/correlation/heatmap"] >> ]

CorrelationsGroup ==
    [ title |-> "Correlations",
      icon  |-> "U+1F517",
      links |-> << [label |-> "Full Matrix",            href |-> "/correlation/matrix"],
                   [label |-> "Pairwise Metrics",       href |-> "/correlation/pairwise"],
                   [label |-> "Cramér's V",             href |-> "/correlation/cramers-v"],
                   [label |-> "Correlation Ratio (η²)", href |-> "/correlation/eta"],
                   [label |-> "Feature Heatmap",        href |-> "/correlation/heatmap"] >> ]

\* TransformationsGroup with the path prefix in the singular, as the
\* Correlations group has it.
TransformationsGroup_SingularPrefix ==
    [ title |-> "Transformations",
      icon  |-> "U+1F527",
      links |-> << [label |-> "Column Transformations", href |-> "/transformation/columns"],
                   [label |-> "Normalizations",         href |-> "/transformation/normalize"],
                   [label |-> "Encodings",              href |-> "/transformation/encodings"],
                   [label |-> "Feature Engineering",    href |-> "/transformation/feature-eng"],
                   [label |-> "Generated SQL",          href |-> "/transformation/sql-preview"] >> ]

\* TransformationsGroup with the title of the group above it (a pasted block
\* whose title was not edited).
TransformationsGroup_PastedTitle ==
    [ title |-> "Correlations",
      icon  |-> "U+1F527",
      links |-> << [label |-> "Column Transformations", href |-> "/transformations/columns"],
                   [label |-> "Normalizations",         href |-> "/transformations/normalize"],
                   [label |-> "Encodings",              href |-> "/transformations/encodings"],
                   [label |-> "Feature Engineering",    href |-> "/transformations/feature-eng"],
                   [label |-> "Generated SQL",          href |-> "/transformations/sql-preview"] >> ]

TransformationsGroup ==
    [ title |-> "Transformations",
      icon  |-> "U+1F527",
      links |-> << [label |-> "Column Transformations", href |-> "/transformations/columns"],
                   [label |-> "Normalizations",         href |-> "/transformations/normalize"],
                   [label |-> "Encodings",              href |-> "/transformations/encodings"],
                   [label |-> "Feature Engineering",    href |-> "/transformations/feature-eng"],
                   [label |-> "Generated SQL",          href |-> "/transformations/sql-preview"] >> ]

\* DistributionsGroup with two neighbouring links exchanged.
DistributionsGroup_SwappedLinks ==
    [ title |-> "Distributions",
      icon  |-> "U+1F4CA",
      links |-> << [label |-> "Histogram", href |-> "/distributions/histogram"],
                   [label |-> "Box Plot",  href |-> "/distributions/boxplot"],
                   [label |-> "Outliers",  href |-> "/distributions/outliers"],
                   [label |-> "Quantiles", href |-> "/distributions/quantiles"],
                   [label |-> "KDE",       href |-> "/distributions/kde"] >> ]

\* DistributionsGroup declared as a heading whose links are still to come.
DistributionsGroup_NoLinks ==
    [ title |-> "Distributions",
      icon  |-> "U+1F4CA",
      links |-> << >> ]

DistributionsGroup ==
    [ title |-> "Distributions",
      icon  |-> "U+1F4CA",
      links |-> << [label |-> "Histogram", href |-> "/distributions/histogram"],
                   [label |-> "Box Plot",  href |-> "/distributions/boxplot"],
                   [label |-> "Quantiles", href |-> "/distributions/quantiles"],
                   [label |-> "Outliers",  href |-> "/distributions/outliers"],
                   [label |-> "KDE",       href |-> "/distributions/kde"] >> ]

\* The groups in alphabetical order of title.
menuGroups_Alphabetical ==
    << CorrelationsGroup, DistributionsGroup, TransformationsGroup >>

menuGroups ==
    << CorrelationsGroup, TransformationsGroup, DistributionsGroup >>

----------------------------------------------------------------------------
(* References.                                                             *)

\* The value of a consumer's variable before it has read the export.
NoRef == << >>

\* The array object the exported binding names.
MenuGroupsRef == << "menuGroups" >>

----------------------------------------------------------------------------
Init ==
    /\ heap = [a \in {MenuGroupsRef} |-> menuGroups]
    /\ ref = [c \in Consumers |-> NoRef]
    /\ cursor = [c \in Consumers |-> 0]
    /\ firstResult = << >>
    /\ lastResult = << >>
    /\ writes = 0

\* A private array object of consumer c (the code allocates none).
CopyRef(c) == << "copy", c >>

\* The array in the opposite order.
Reverse(arr) == [i \in 1..Len(arr) |-> arr[Len(arr) + 1 - i]]

\* An accessor that hands out menuGroups.reverse(): the array is reversed in
\* place and the same reference returned.
getMenuGroups_ReverseInPlace(c) ==
    /\ heap' = [heap EXCEPT ![MenuGroupsRef] = Reverse(@)]
    /\ ref' = [ref EXCEPT ![c] = MenuGroupsRef]
    /\ cursor' = [cursor EXCEPT ![c] = 0]
    /\ lastResult' = << Reverse(heap[MenuGroupsRef]) >>
    /\ firstResult' = IF firstResult = << >> THEN << Reverse(heap[MenuGroupsRef]) >>
                                             ELSE firstResult
    /\ UNCHANGED writes

\* An accessor that hands out menuGroups.splice(0) where slice(0) was meant:
\* the caller gets a new array with the elements, the export is left empty.
getMenuGroups_Splice(c) ==
    /\ heap' = [a \in DOMAIN heap \cup {CopyRef(c)} |->
                   IF a = CopyRef(c) THEN heap[MenuGroupsRef]
                   ELSE IF a = MenuGroupsRef THEN << >>
                   ELSE heap[a]]
    /\ ref' = [ref EXCEPT ![c] = CopyRef(c)]
    /\ cursor' = [cursor EXCEPT ![c] = 0]
    /\ lastResult' = << heap[MenuGroupsRef] >>
    /\ firstResult' = IF firstResult = << >> THEN << heap[MenuGroupsRef] >>
                                             ELSE firstResult
    /\ UNCHANGED writes

\* An accessor that hands out a deep copy of the array.
getMenuGroups_DefensiveCopy(c) ==
    /\ heap' = [a \in DOMAIN heap \cup {CopyRef(c)} |->
                   IF a = CopyRef(c) THEN heap[MenuGroupsRef] ELSE heap[a]]
    /\ ref' = [ref EXCEPT ![c] = CopyRef(c)]
    /\ cursor' = [cursor EXCEPT ![c] = 0]
    /\ lastResult' = << heap[MenuGroupsRef] >>
    /\ firstResult' = IF firstResult = << >> THEN << heap[MenuGroupsRef] >>
                                             ELSE firstResult
    /\ UNCHANGED writes

\* Consumer c evaluates the exported binding: it obtains the reference the
\* binding holds, and starts a fresh walk over the groups.
getMenuGroups(c) ==
    /\ ref' = [ref EXCEPT ![c] = MenuGroupsRef]
    /\ cursor' = [cursor EXCEPT ![c] = 0]
    /\ lastResult' = << heap[MenuGroupsRef] >>
    /\ firstResult' = IF firstResult = << >> THEN << heap[MenuGroupsRef] >>
                                             ELSE firstResult
    /\ UNCHANGED <<heap, writes>>

\* Consumer c reads the next element of the array it holds.
ReadGroup(c) ==
    /\ ref[c] # NoRef
    /\ cursor[c] < Len(heap[ref[c]])
    /\ cursor' = [cursor EXCEPT ![c] = @ + 1]
    /\ UNCHANGED <<heap, ref, firstResult, lastResult, writes>>

Next ==
    \E c \in Consumers :
        \/ getMenuGroups(c)
        \/ ReadGroup(c)

Spec == Init /\ [][Next]_vars

----------------------------------------------------------------------------
(* What the declared types let a consumer do with the value it obtained.   *)
(* MenuGroup[] is a mutable array type and no field of MenuGroup is        *)
(* readonly, so push, pop and assignment type-check and run.               *)

\* Values a consumer writes.
NewGroups == { [title |-> "Correlations", links |-> << >>] }
NewLinks  == { [label |-> "Full Matrix", href |-> "correlation/matrix"] }
NewTitles == { "Distributions" }
NewHrefs  == { "/correlation/matrix" }

\* The array with element i replaced by v.
SetAt(arr, i, v) == [arr EXCEPT ![i] = v]

\* The array without its last element.
DropLast(arr) == SubSeq(arr, 1, Len(arr) - 1)

\* Consumer c stores a new content into the array object it holds.
Store(c, content) ==
    /\ heap' = [heap EXCEPT ![ref[c]] = content]
    /\ writes' = writes + 1
    /\ UNCHANGED <<ref, cursor, firstResult, lastResult>>

CanWrite(c) ==
    /\ ref[c] # NoRef
    /\ writes < MaxWrites

\* held.push(g)
PushGroup(c, g) ==
    /\ CanWrite(c)
    /\ Store(c, Append(heap[ref[c]], g))

\* held.pop()
PopGroup(c) ==
    /\ CanWrite(c)
    /\ Len(heap[ref[c]]) > 0
    /\ Store(c, DropLast(heap[ref[c]]))

\* held[i].title = t
SetTitle(c, i, t) ==
    /\ CanWrite(c)
    /\ i \in 1..Len(heap[ref[c]])
    /\ heap[ref[c]][i].title # t
    /\ Store(c, SetAt(heap[ref[c]], i, [heap[ref[c]][i] EXCEPT !.title = t]))

\* held[i].links.push(l)
PushLink(c, i, l) ==
    /\ CanWrite(c)
    /\ i \in 1..Len(heap[ref[c]])
    /\ Store(c, SetAt(heap[ref[c]], i,
                      [heap[ref[c]][i] EXCEPT !.links = Append(@, l)]))

\* held[i].links.pop()
PopLink(c, i) ==
    /\ CanWrite(c)
    /\ i \in 1..Len(heap[ref[c]])
    /\ Len(heap[ref[c]][i].links) > 0
    /\ Store(c, SetAt(heap[ref[c]], i,
                      [heap[ref[c]][i] EXCEPT !.links = DropLast(@)]))

\* held[i].links[j].href = h
SetHref(c, i, j, h) ==
    /\ CanWrite(c)
    /\ i \in 1..Len(heap[ref[c]])
    /\ j \in 1..Len(heap[ref[c]][i].links)
    /\ heap[ref[c]][i].links[j].href # h
    /\ Store(c, SetAt(heap[ref[c]], i,
                      [heap[ref[c]][i] EXCEPT !.links[j].href = h]))

\* The content of the array consumer c holds (nothing before its first read).
Held(c) == IF ref[c] = NoRef THEN << >> ELSE heap[ref[c]]

NextConsumerWrites ==
    \E c \in Consumers :
        \/ getMenuGroups(c)
        \/ ReadGroup(c)
        \/ \E g \in NewGroups : PushGroup(c, g)
        \/ PopGroup(c)
        \/ \E i \in 1..Len(Held(c)), t \in NewTitles : SetTitle(c, i, t)
        \/ \E i \in 1..Len(Held(c)), l \in NewLinks : PushLink(c, i, l)
        \/ \E i \in 1..Len(Held(c)) : PopLink(c, i)
        \/ \E i \in 1..Len(Held(c)), j \in {1}, h \in NewHrefs :
               SetHref(c, i, j, h)

SpecConsumerWrites == Init /\ [][NextConsumerWrites]_vars

----------------------------------------------------------------------------
(* Properties.                                                             *)

\* The registry: the content of the array the exported binding names.
Registry == heap[MenuGroupsRef]

\* The titles of a sequence of groups, in order.
Titles(groups) == [i \in 1..Len(groups) |-> groups[i].title]

\* The <<label, href>> pairs of a group's links, in order.
LinkPairs(group) ==
    [j \in 1..Len(group.links) |-> << group.links[j].label, group.links[j].href >>]

\* The indexes of the groups with title t.
Titled(groups, t) == { i \in 1..Len(groups) : groups[i].title = t }

\* String s begins with string p.
StartsWith(s, p) == Len(s) >= Len(p) /\ SubSeq(s, 1, Len(p)) = p

\* The positions <<group index, link index>> of all links.
LinkPositions(groups) ==
    UNION { { << i, j >> : j \in 1..Len(groups[i].links) } : i \in 1..Len(groups) }

HrefAt(groups, p) == groups[p[1]].links[p[2]].href

\* Some read has returned.
HasRead == lastResult # << >>

\* C1: a read of the registry yields exactly 3 groups titled, in this order,
\* "Correlations", "Transformations", "Distributions".
C1_ThreeGroupsInOrder ==
    HasRead =>
        /\ Len(lastResult[1]) = 3
        /\ Titles(lastResult[1]) = << "Correlations", "Transformations", "Distributions" >>

C1_Witness ==
    /\ HasRead
    /\ \E c \in Consumers : ref[c] # NoRef /\ cursor[c] = 3

\* C2: the group titled "Correlations" has exactly these 5 links, in this
\* order, with these label/href pairs.
C2_CorrelationsLinks ==
    HasRead =>
        /\ Cardinality(Titled(lastResult[1], "Correlations")) = 1
        /\ \A i \in Titled(lastResult[1], "Correlations") :
              LinkPairs(lastResult[1][i]) =
                << << "Full Matrix",            "/correlation/matrix" >>,
                   << "Pairwise Metrics",       "/correlation/pairwise" >>,
                   << "Cramér's V",             "/correlation/cramers-v" >>,
                   << "Correlation Ratio (η²)", "/correlation/eta" >>,
                   << "Feature Heatmap",        "/correlation/heatmap" >> >>

C2_Witness ==
    /\ HasRead
    /\ \E c \in Consumers :
          /\ ref[c] # NoRef
          /\ cursor[c] >= 1
          /\ heap[ref[c]][cursor[c]].title = "Correlations"
          /\ Len(heap[ref[c]][cursor[c]].links) = 5

\* C3: the group titled "Transformations" has exactly these 5 links, in this
\* order, and every href of it begins with "/transformations/".
C3_TransformationsLinks ==
    HasRead =>
        /\ Cardinality(Titled(lastResult[1], "Transformations")) = 1
        /\ \A i \in Titled(lastResult[1], "Transformations") :
              /\ LinkPairs(lastResult[1][i]) =
                    << << "Column Transformations", "/transformations/columns" >>,
                       << "Normalizations",         "/transformations/normalize" >>,
                       << "Encodings",              "/transformations/encodings" >>,
                       << "Feature Engineering",    "/transformations/feature-eng" >>,
                       << "Generated SQL",          "/transformations/sql-preview" >> >>
              /\ \A j \in 1..Len(lastResult[1][i].links) :
                    StartsWith(lastResult[1][i].links[j].href, "/transformations/")

C3_Witness ==
    /\ HasRead
    /\ \E c \in Consumers :
          /\ ref[c] # NoRef
          /\ cursor[c] >= 1
          /\ heap[ref[c]][cursor[c]].title = "Transformations"
          /\ Len(heap[ref[c]][cursor[c]].links) = 5

\* C4: the group titled "Distributions" has exactly these 5 links, in this
\* order, and every href of it begins with "/distributions/".
C4_DistributionsLinks ==
    HasRead =>
        /\ Cardinality(Titled(lastResult[1], "Distributions")) = 1
        /\ \A i \in Titled(lastResult[1], "Distributions") :
              /\ LinkPairs(lastResult[1][i]) =
                    << << "Histogram", "/distributions/histogram" >>,
                       << "Box Plot",  "/distributions/boxplot" >>,
                       << "Quantiles", "/distributions/quantiles" >>,
                       << "Outliers",  "/distributions/outliers" >>,
                       << "KDE",       "/distributions/kde" >> >>
              /\ \A j \in 1..Len(lastResult[1][i].links) :
                    StartsWith(lastResult[1][i].links[j].href, "/distributions/")

C4_Witness ==
    /\ HasRead
    /\ \E c \in Consumers :
          /\ ref[c] # NoRef
          /\ cursor[c] >= 1
          /\ heap[ref[c]][cursor[c]].title = "Distributions"
          /\ Len(heap[ref[c]][cursor[c]].links) = 5

\* C5: whatever reads the consumers have made, the registry holds the
\* declared literal (groups, order, titles, icons, links) and the heap holds
\* no other array: no read mutates, adds or removes anything.
C5_RegistryImmutable ==
    /\ DOMAIN heap = {MenuGroupsRef}
    /\ Registry = menuGroups

C5_Witness ==
    \A c \in Consumers : ref[c] = MenuGroupsRef /\ cursor[c] = Len(Registry)

\* C6: every read returns what the first read returned, and after a read the
\* registry still holds the content the read returned (a read has no side
\* effect on it).
C6_ReadsIdempotent ==
    HasRead =>
        /\ lastResult = firstResult
        /\ Registry = lastResult[1]

C6_Witness ==
    /\ HasRead
    /\ \E c1, c2 \in Consumers :
          c1 # c2 /\ ref[c1] # NoRef /\ ref[c2] # NoRef

\* C7 as claimed: whatever consumers do to what they obtained, a read returns
\* what the read before it returned.
C7_WritesDoNotAffectReads ==
    [][HasRead => lastResult' = lastResult]_vars

\* C7 as amended: the value a consumer obtains is the registry's own array
\* (no copy is made), and every modification a consumer makes through it
\* changes the content the next read returns.
C7_WritesVisibleToReads ==
    [][ /\ \A c \in Consumers : ref'[c] # NoRef => ref'[c] = MenuGroupsRef
        /\ writes' # writes => heap'[MenuGroupsRef] # heap[MenuGroupsRef]
        /\ lastResult' # lastResult => lastResult' = << heap[MenuGroupsRef] >> ]_vars

C7_Witness ==
    /\ writes > 0
    /\ HasRead
    /\ lastResult # firstResult
    /\ lastResult[1] = Registry

\* C8: every group of the registry has at least one link.
C8_LinksNonEmpty ==
    \A i \in 1..Len(Registry) : Len(Registry[i].links) > 0

C8_Witness ==
    /\ Len(Registry) > 0
    /\ \A c \in Consumers : ref[c] # NoRef /\ cursor[c] >= 1

\* C9: no two distinct groups of the registry have the same title.
C9_TitlesUnique ==
    \A i, j \in 1..Len(Registry) : i # j => Registry[i].title # Registry[j].title

C9_Witness ==
    /\ Len(Registry) >= 2
    /\ \E c \in Consumers : ref[c] # NoRef /\ cursor[c] = 2

\* C10: the registry has 15 links, every href begins with "/", and no two
\* links (of the same or of different groups) have the same href.
C10_HrefsRootedAndDistinct ==
    /\ Cardinality(LinkPositions(Registry)) = 15
    /\ \A p \in LinkPositions(Registry) : StartsWith(HrefAt(Registry, p), "/")
    /\ \A p, q \in LinkPositions(Registry) :
          p # q => HrefAt(Registry, p) # HrefAt(Registry, q)

C10_Witness ==
    /\ Cardinality(LinkPositions(Registry)) = 15
    /\ \E c \in Consumers : ref[c] # NoRef /\ cursor[c] = 1

====
